---- MODULE Spec2Model ----
(***************************************************************************)
(* Model of tt_exercise.py: three reports over the NeoWs feed endpoint,    *)
(* run in sequence by the module's entry point.                            *)
(*                                                                         *)
(* Encoding.  A calendar date string "YYYY-MM-DD" is written as its day    *)
(* ordinal counted from 2019-10-31 (= 0).  A datetime is a record          *)
(* [day, tod] (calendar day, time of day).  A velocity string is the       *)
(* sequence of its decimal digits.  An exact quotient a/b is the record    *)
(* [num |-> a, den |-> b].  A printed line is a tuple.                     *)
(***************************************************************************)
EXTENDS Integers, Sequences, FiniteSets, TLC

VARIABLES
    pc,                   \* position of the main program
    requests,             \* every GET issued so far, in order
    response,             \* `response` of the running report
    exc,                  \* the uncaught exception, if any
    stdout,               \* lines printed by the running (or last) report
    velocities,           \* display_asteroid_properties: `velocities`
    stats,                \* display_asteroid_properties: the four aggregates
    feed,                 \* what the service holds for the days being scanned
    end_date,             \* display_recent_hazardous_asteroids: `end_date`
    start_date,           \* display_recent_hazardous_asteroids: `start_date`
    hazardous_asteroids,  \* display_recent_hazardous_asteroids: the list
    pending               \* date keys of the response not yet iterated

vars == <<pc, requests, response, exc, stdout, velocities, stats, feed,
          end_date, start_date, hazardous_asteroids, pending>>

----------------------------------------------------------------------------
(* Bounds of the model *)

\* asteroids per date bucket of a response
MaxPerDay == 2
\* number of most recent days for which the service holds asteroids
HazDays == 2
\* times of day at which the program may be started: 0..MaxTod
MaxTod == 1
\* asteroids in the bucket answered to the velocity report
MaxVelocities == 4
\* one-digit velocity strings "1".."MaxDigit" (plus the two-digit "10")
MaxDigit == 3
\* requests after which the hazard scan is no longer followed
MaxQueries == 32
\* day ordinal of datetime.today() when the scan starts
TodayDay == 400

----------------------------------------------------------------------------
(* Program constants *)

API_KEY == "REDACTED"
OK == 200
start_date_q1 == 0
end_date_q1 == 2
start_date_q2 == 315
end_date_q2 == 322
\* timedelta(days=30) of the loop condition
LookbackDays == 30
\* the 3 of `len(hazardous_asteroids) < 3` and `>= 3`
HazardTarget == 3

----------------------------------------------------------------------------
(* Generic helpers *)

SeqsUpTo(S, n) == UNION {[1..k -> S] : k \in 0..n}

Range(s) == {s[i] : i \in 1..Len(s)}

IsPrefix(s, t) == Len(s) <= Len(t) /\ SubSeq(t, 1, Len(s)) = s

RECURSIVE ConcatAll(_)
ConcatAll(ss) ==
    IF ss = <<>> THEN <<>> ELSE Head(ss) \o ConcatAll(Tail(ss))

----------------------------------------------------------------------------
(* datetime / timedelta *)

Today(tod) == [day |-> TodayDay, tod |-> tod]

MinusDays(dt, n) == [day |-> dt.day - n, tod |-> dt.tod]

DtGreater(a, b) == a.day > b.day \/ (a.day = b.day /\ a.tod > b.tod)

\* strftime('%Y-%m-%d'): the calendar day, the time of day is dropped
Strftime(dt) == dt.day

NoDate == [day |-> 0, tod |-> 0]

----------------------------------------------------------------------------
(* The feed endpoint: what a GET may be answered with *)

Approach(full, v) ==
    [close_approach_date_full |-> full,
     relative_velocity |-> [kilometers_per_second |-> v]]

Neo(name, haz, cad) ==
    [name |-> name, id |-> "id" \o name,
     is_potentially_hazardous_asteroid |-> haz,
     close_approach_data |-> cad]

Request(by, s, e) ==
    [by |-> by, start_date |-> s, end_date |-> e, api_key |-> API_KEY]

NoResponse == [status_code |-> 0, reason |-> "", body |-> [kind |-> "none"]]

FeedBody(neos) == [kind |-> "feed", near_earth_objects |-> neos]

OkResponse(neos) ==
    [status_code |-> OK, reason |-> "OK", body |-> FeedBody(neos)]

\* answers with a status other than 200: an error document, or no JSON at all
ErrorResponses ==
    {[status_code |-> 404, reason |-> "Not Found",
      body |-> [kind |-> "errorjson"]],
     [status_code |-> 503, reason |-> "Service Unavailable",
      body |-> [kind |-> "notjson"]]}

\* the date keys of an answer for [s, e], in either order
KeyOrders(s, e) ==
    {[i \in 1..(e - s + 1) |-> s + i - 1], [i \in 1..(e - s + 1) |-> e - i + 1]}

\* the ordered date -> asteroids mapping, for every choice of lists from Lists
Mappings(s, e, Lists) ==
    {[i \in 1..Len(keys) |-> [date |-> keys[i], neos |-> content[keys[i]]]] :
        keys \in KeyOrders(s, e), content \in [s..e -> Lists]}

NoExc == [type |-> "none", args |-> <<>>]

\* raise Exception(f"Error {response.status_code}: {response.reason}")
HttpError(r) ==
    [type |-> "Exception", args |-> <<"Error", r.status_code, r.reason>>]

----------------------------------------------------------------------------
Init ==
    /\ pc = "q1"
    /\ requests = <<>>
    /\ response = NoResponse
    /\ exc = NoExc
    /\ stdout = <<>>
    /\ velocities = <<>>
    /\ stats = <<>>
    /\ feed = [d \in {} |-> <<>>]
    /\ end_date = NoDate
    /\ start_date = NoDate
    /\ hazardous_asteroids = <<>>
    /\ pending = <<>>

----------------------------------------------------------------------------
(* display_asteroid_information *)

\* what the service may hold for a day of the listed range
ListerNeos ==
    {Neo("A", FALSE, <<Approach("t1", <<1>>)>>),
     Neo("B", TRUE, <<Approach("t1", <<2>>), Approach("t2", <<3>>)>>)}

InfoResponses(s, e) ==
    {OkResponse(m) : m \in Mappings(s, e, SeqsUpTo(ListerNeos, MaxPerDay))}
        \cup ErrorResponses

InfoLinesNeo(a) ==
    << <<" ---------- ">>, <<"Name", a.name>>, <<"ID", a.id>> >>
        \o [i \in 1..Len(a.close_approach_data) |->
               <<"Close approach date (full)",
                 a.close_approach_data[i].close_approach_date_full>>]

InfoLinesDate(b) ==
    << <<"Asteroids approach date", b.date>> >>
        \o ConcatAll([i \in 1..Len(b.neos) |-> InfoLinesNeo(b.neos[i])])
        \o << <<"">> >>

InfoLines(neo_map) ==
    ConcatAll([i \in 1..Len(neo_map) |-> InfoLinesDate(neo_map[i])])

display_asteroid_information(start, end, ret) ==
    \E r \in InfoResponses(start, end) :
        /\ requests' = Append(requests,
                              Request("display_asteroid_information", start, end))
        /\ response' = r
        /\ IF r.status_code = OK
           THEN /\ stdout' = InfoLines(r.body.near_earth_objects)
                /\ exc' = exc
                /\ pc' = ret
           ELSE /\ stdout' = <<>>
                /\ exc' = HttpError(r)
                /\ pc' = "raised"
        /\ UNCHANGED <<velocities, stats, feed, end_date, start_date,
                       hazardous_asteroids, pending>>

----------------------------------------------------------------------------
(* display_asteroid_properties *)

VelStrings == {<<d>> : d \in 1..MaxDigit} \cup {<<1, 0>>}

\* float() of a decimal string
RECURSIVE ParseFloat(_)
ParseFloat(s) ==
    IF s = <<>> THEN 0
    ELSE 10 * ParseFloat(SubSeq(s, 1, Len(s) - 1)) + s[Len(s)]

PropsNeos ==
    {Neo("V", FALSE, <<Approach("t1", v)>>) : v \in VelStrings}
        \cup {Neo("W", FALSE, <<Approach("t1", <<2>>), Approach("t2", <<1, 0>>)>>)}

PropsResponses(s, e) ==
    {OkResponse(m) : m \in Mappings(s, e, SeqsUpTo(PropsNeos, MaxVelocities))}
        \cup ErrorResponses

\* asteroid['close_approach_data'][0]['relative_velocity']['kilometers_per_second']
RelativeVelocity(a) ==
    ParseFloat(a.close_approach_data[1].relative_velocity.kilometers_per_second)

ExtractVelocities(neo_map) ==
    ConcatAll([i \in 1..Len(neo_map) |->
                  [j \in 1..Len(neo_map[i].neos) |->
                      RelativeVelocity(neo_map[i].neos[j])]])

MaxOf(vs) == CHOOSE x \in Range(vs) : \A y \in Range(vs) : y <= x

MinOf(vs) == CHOOSE x \in Range(vs) : \A y \in Range(vs) : x <= y

RECURSIVE SumOf(_)
SumOf(vs) == IF vs = <<>> THEN 0 ELSE Head(vs) + SumOf(Tail(vs))

RECURSIVE InsertSorted(_, _)
InsertSorted(x, s) ==
    IF s = <<>> THEN <<x>>
    ELSE IF x <= Head(s) THEN <<x>> \o s
    ELSE <<Head(s)>> \o InsertSorted(x, Tail(s))

RECURSIVE SortedAscending(_)
SortedAscending(s) ==
    IF s = <<>> THEN <<>> ELSE InsertSorted(Head(s), SortedAscending(Tail(s)))

Unsorted(s) == s

\* sorted(velocities)
Sorted(s) == SortedAscending(s)

\* the odd / even branches on sorted_velocities (0-based n // 2 is 1-based n \div 2 + 1)
MedianOf(vs) ==
    LET sv == Sorted(vs)
        n == Len(sv)
    IN  IF n % 2 # 0
        THEN [num |-> sv[n \div 2 + 1], den |-> 1]
        ELSE [num |-> sv[n \div 2 + 1] + sv[n \div 2], den |-> 2]

\* max() and min() raise ValueError on an empty sequence; no guard precedes them
AggregateError(vs) ==
    IF vs = <<>>
    THEN [type |-> "ValueError", args |-> <<"max() arg is an empty sequence">>]
    ELSE NoExc

Statistics(vs) ==
    [fastest_velocity |-> [num |-> MaxOf(vs), den |-> 1],
     slowest_velocity |-> [num |-> MinOf(vs), den |-> 1],
     mean_velocity |-> [num |-> SumOf(vs), den |-> Len(vs)],
     median_velocity |-> MedianOf(vs)]

\* f'{x:.2f}': the quotient in hundredths, rounded to nearest
Format2f(q) == (200 * q.num + q.den) \div (2 * q.den)

PropsLines(st) ==
    << <<"Fastest velocity", Format2f(st.fastest_velocity), "kilometers_per_second">>,
       <<"Slowest velocity", Format2f(st.slowest_velocity), "kilometers_per_second">>,
       <<"Mean velocity", Format2f(st.mean_velocity), "kilometers_per_second">>,
       <<"Median velocity", Format2f(st.median_velocity), "kilometers_per_second">> >>

display_asteroid_properties(start, end, ret) ==
    \E r \in PropsResponses(start, end) :
        /\ requests' = Append(requests,
                              Request("display_asteroid_properties", start, end))
        /\ response' = r
        /\ IF r.status_code = OK
           THEN LET vs == ExtractVelocities(r.body.near_earth_objects)
                IN  /\ velocities' = vs
                    /\ IF AggregateError(vs) # NoExc
                       THEN /\ exc' = AggregateError(vs)
                            /\ stats' = <<>>
                            /\ stdout' = <<>>
                            /\ pc' = "raised"
                       ELSE /\ exc' = exc
                            /\ stats' = <<Statistics(vs)>>
                            /\ stdout' = PropsLines(Statistics(vs))
                            /\ pc' = ret
           ELSE /\ velocities' = <<>>
                /\ stats' = <<>>
                /\ stdout' = <<>>
                /\ exc' = HttpError(r)
                /\ pc' = "raised"
        /\ UNCHANGED <<feed, end_date, start_date, hazardous_asteroids, pending>>

----------------------------------------------------------------------------
(* display_recent_hazardous_asteroids *)

Scanner == "display_recent_hazardous_asteroids"

\* the requests issued by the scan, in order
HazRequests == SelectSeq(requests, LAMBDA q : q.by = Scanner)

\* a day's asteroids: the i-th is named i, hazardous as flagged
HazNeoList(flags) ==
    [i \in 1..Len(flags) |->
        Neo(ToString(i), flags[i], <<Approach("t1", <<1>>)>>)]

\* the service's data: asteroids on the HazDays most recent days only
Feeds ==
    [(TodayDay - HazDays + 1)..TodayDay ->
        {HazNeoList(f) : f \in SeqsUpTo(BOOLEAN, MaxPerDay)}]

FeedOn(d) == IF d \in DOMAIN feed THEN feed[d] ELSE <<>>

ScanResponses(s, e) ==
    {OkResponse([i \in 1..Len(keys) |->
                    [date |-> keys[i], neos |-> FeedOn(keys[i])]]) :
        keys \in KeyOrders(s, e)}
        \cup ErrorResponses

\* data = response.json(); data['near_earth_objects'], the status is not looked at
JsonError(r) ==
    IF r.body.kind = "notjson"
    THEN [type |-> "JSONDecodeError", args |-> <<"Expecting value">>]
    ELSE IF r.body.kind # "feed"
    THEN [type |-> "KeyError", args |-> <<"near_earth_objects">>]
    ELSE NoExc

\* the (date, name) pairs of the hazardous asteroids of a list, in order
RECURSIVE HazardousOf(_, _)
HazardousOf(date, neos) ==
    IF neos = <<>> THEN <<>>
    ELSE (IF Head(neos).is_potentially_hazardous_asteroid
          THEN << <<date, Head(neos).name>> >>
          ELSE <<>>) \o HazardousOf(date, Tail(neos))

\* while len(hazardous_asteroids) < 3 and start_date > end_date - timedelta(days=30)
LoopGuard(h, s, e) ==
    Len(h) < HazardTarget /\ DtGreater(s, MinusDays(e, LookbackDays))

BreakNever(h) == FALSE

\* if len(hazardous_asteroids) >= 3: break
BreakNow(h) == Len(h) >= HazardTarget

KeepEnd(dt) == dt

\* end_date -= timedelta(days=1)
ShiftEnd(dt) == MinusDays(dt, 1)

\* start_date -= timedelta(days=1)
ShiftStart(dt) == MinusDays(dt, 1)

HazLines(now, h) ==
    << <<"The three most recent hazardous asteroids As of today", now>> >> \o h

\* lines 115-118: the dates and the empty list
HazInit ==
    /\ pc = "q3"
    /\ \E tod \in 0..MaxTod, f \in Feeds :
        /\ feed' = f
        /\ end_date' = Today(tod)
        /\ start_date' = MinusDays(Today(tod), 1)
    /\ hazardous_asteroids' = <<>>
    /\ pending' = <<>>
    /\ pc' = "haz_loop"
    /\ UNCHANGED <<requests, response, exc, stdout, velocities, stats>>

\* lines 121-132: the loop test holds, one request, its body decoded
HazQuery ==
    /\ pc = "haz_loop"
    /\ LoopGuard(hazardous_asteroids, start_date, end_date)
    /\ Len(HazRequests) < MaxQueries
    /\ \E r \in ScanResponses(Strftime(start_date), Strftime(end_date)) :
        /\ requests' = Append(requests,
                              Request(Scanner, Strftime(start_date), Strftime(end_date)))
        /\ response' = r
        /\ IF JsonError(r) # NoExc
           THEN /\ exc' = JsonError(r)
                /\ pending' = <<>>
                /\ pc' = "raised"
           ELSE /\ exc' = exc
                /\ pending' = r.body.near_earth_objects
                /\ pc' = IF r.body.near_earth_objects = <<>>
                         THEN "haz_shift" ELSE "haz_dates"
    /\ UNCHANGED <<stdout, velocities, stats, feed, end_date, start_date,
                   hazardous_asteroids>>

\* lines 132-139: one date of the response, then the test for the break
HazDate ==
    /\ pc = "haz_dates"
    /\ LET b == Head(pending)
           h == hazardous_asteroids \o HazardousOf(b.date, b.neos)
       IN  /\ hazardous_asteroids' = h
           /\ pending' = Tail(pending)
           /\ pc' = IF BreakNow(h) \/ Tail(pending) = <<>>
                    THEN "haz_shift" ELSE "haz_dates"
    /\ UNCHANGED <<requests, response, exc, stdout, velocities, stats, feed,
                   end_date, start_date>>

\* lines 141-143: the window moves back
HazShift ==
    /\ pc = "haz_shift"
    /\ end_date' = ShiftEnd(end_date)
    /\ start_date' = ShiftStart(start_date)
    /\ pc' = "haz_loop"
    /\ UNCHANGED <<requests, response, exc, stdout, velocities, stats, feed,
                   hazardous_asteroids, pending>>

\* lines 145-148: the loop test fails, the report; datetime.today() is read again
HazPrint ==
    /\ pc = "haz_loop"
    /\ ~LoopGuard(hazardous_asteroids, start_date, end_date)
    /\ \E now \in {TodayDay, TodayDay + 1} :
        stdout' = HazLines(now, hazardous_asteroids)
    /\ pc' = "done"
    /\ UNCHANGED <<requests, response, exc, velocities, stats, feed, end_date,
                   start_date, hazardous_asteroids, pending>>

----------------------------------------------------------------------------
(* if __name__ == "__main__" *)

\* the locals of a report are gone once it has returned; what it printed
\* is not carried into the next report's output
NextReport(to) ==
    /\ pc' = to
    /\ response' = NoResponse
    /\ stdout' = <<>>
    /\ velocities' = <<>>
    /\ stats' = <<>>
    /\ UNCHANGED <<requests, exc, feed, end_date, start_date,
                   hazardous_asteroids, pending>>

\* lines 154-156
MainQ1 ==
    /\ pc = "q1"
    /\ display_asteroid_information(start_date_q1, end_date_q1, "q1_done")

\* lines 160-161
MainToQ2 ==
    /\ pc = "q1_done"
    /\ NextReport("q2")

\* line 162: both arguments are start_date_q2
MainQ2 ==
    /\ pc = "q2"
    /\ display_asteroid_properties(start_date_q2, start_date_q2, "q2_done")

\* line 166
MainToQ3 ==
    /\ pc = "q2_done"
    /\ NextReport("q3")

Next ==
    \/ MainQ1
    \/ MainToQ2
    \/ MainQ2
    \/ MainToQ3
    \/ HazInit
    \/ HazQuery
    \/ HazDate
    \/ HazShift
    \/ HazPrint

Spec == Init /\ [][Next]_vars

----------------------------------------------------------------------------
(* Properties *)

\* every hazardous (date, name) pair the service holds for the scanned days
AllHazardous == UNION {Range(HazardousOf(d, feed[d])) : d \in DOMAIN feed}

\* the lines of the hazard report after its header
ReportedEntries == Tail(stdout)

LastRequest == requests[Len(requests)]

\* V's k-th smallest element, by counting
OrderStatistic(V, k) ==
    CHOOSE x \in Range(V) :
        /\ Cardinality({i \in 1..Len(V) : V[i] < x}) < k
        /\ k <= Cardinality({i \in 1..Len(V) : V[i] <= x})

\* twice the order-statistic median of V
TwiceMedian(V) ==
    IF Len(V) % 2 = 1
    THEN 2 * OrderStatistic(V, (Len(V) + 1) \div 2)
    ELSE OrderStatistic(V, Len(V) \div 2) + OrderStatistic(V, Len(V) \div 2 + 1)

\* C1: every window the hazard scan queries starts strictly later than
\* today - 30 days, today being the date when the scan was started.
C1_LookbackBound ==
    \A i \in 1..Len(HazRequests) :
        HazRequests[i].start_date > TodayDay - LookbackDays

\* C2: the hazard scan issues a bounded number of queries, at most 30,
\* also when the feed holds fewer than 3 hazardous asteroids.
C2_BoundedQueries == Len(HazRequests) <= LookbackDays

\* C3: when the scan has found at least three, exactly three entries are
\* reported and no hazardous asteroid of the feed that is left out is dated
\* later than a reported one.
C3_ThreeMostRecent ==
    (pc = "done" /\ Len(hazardous_asteroids) >= HazardTarget) =>
        /\ Len(ReportedEntries) = 3
        /\ \A a \in AllHazardous \ Range(ReportedEntries) :
               \A i \in 1..Len(ReportedEntries) : a[1] <= ReportedEntries[i][1]

\* C4: a response with a status other than 200 ends the report that asked
\* for it with the exception that carries the status and the reason, raised
\* by the status test and not by decoding the body.
C4_Non200Raises ==
    (response # NoResponse /\ response.status_code # OK) =>
        (pc = "raised" /\ exc = HttpError(response))

\* C5: a 200 response without any asteroid ends display_asteroid_properties
\* with EmptyDatasetError, and nothing is printed.
C5_EmptyDatasetError ==
    (/\ pc = "raised"
     /\ LastRequest.by = "display_asteroid_properties"
     /\ response.status_code = OK) =>
        (exc.type = "EmptyDatasetError" /\ stdout = <<>>)

C7_MainRanges ==
    /\ Len(requests) >= 1 =>
          /\ requests[1].start_date = start_date_q1
          /\ requests[1].end_date = end_date_q1
    /\ Len(requests) >= 2 =>
          /\ requests[2].start_date = start_date_q2
          /\ requests[2].end_date = end_date_q2

C9_WindowStepping ==
    /\ \A i \in 1..Len(HazRequests) :
          /\ HazRequests[i].start_date = TodayDay - i
          /\ HazRequests[i].end_date = TodayDay - i + 1
    /\ pc \in {"haz_loop", "done"} =>
          /\ Strftime(end_date) = TodayDay - Len(HazRequests)
          /\ start_date = MinusDays(end_date, 1)
    /\ pc \in {"haz_dates", "haz_shift"} =>
          /\ Strftime(end_date) = TodayDay - Len(HazRequests) + 1
          /\ start_date = MinusDays(end_date, 1)

\* C9 witness: the window has moved after an iteration that ended in the break
C9_Witness ==
    /\ pc = "haz_loop"
    /\ Len(HazRequests) >= 2
    /\ Len(hazardous_asteroids) >= HazardTarget
    /\ pending # <<>>
    /\ Strftime(end_date) = TodayDay - Len(HazRequests)

\* C10: the list of found entries never holds the same (date, name) pair
\* twice (no pair occurs twice in the feed).
C10_NoDoubleCount ==
    \A i, j \in 1..Len(hazardous_asteroids) :
        i # j => hazardous_asteroids[i] # hazardous_asteroids[j]

====
